---- MODULE Spec2Model ----
(***************************************************************************)
(* libwss: the frame reader (wss_read, frame_internal_read, read_payload), *)
(* the frame writer (wss_write, wss_frame_write, full_write) and the       *)
(* close-code codec (wss_close, wss_close_code) of src/wss.c, as a state   *)
(* machine over a byte channel.                                            *)
(*                                                                         *)
(* Bytes are integers 0..255.  A channel is the sequence of bytes that     *)
(* have been written to it and not yet read.  The host is little-endian    *)
(* (the x86 builds the library targets): an unsigned int loaded from a     *)
(* char buffer has the first byte as its least significant byte.           *)
(***************************************************************************)
EXTENDS Integers, Sequences, FiniteSets, TLC

(***************************************************************************)
(* Bounds of the model.                                                    *)
(***************************************************************************)
\* number of physical frames a raw peer puts on the read channel
MaxFrames == 2
\* a write request of at most this many bytes may be accepted in part
MaxDrain == 4
\* number of wss_write and wss_close calls a caller makes
MaxWrites == 1
\* largest number of bytes a short read of a payload returns (or all of it)
MaxChunk == 2

(***************************************************************************)
(* Program constants (src/wss.h, src/wss.c).                               *)
(***************************************************************************)
WS_MAX_PAYLOAD_LENGTH == 25 * 1024 * 1024

WS_OPCODE_CONTINUE == 0
WS_OPCODE_TEXT == 1
WS_OPCODE_BINARY == 2
WS_OPCODE_CLOSE == 8
WS_OPCODE_PING == 9
WS_OPCODE_PONG == 10

WS_CLOSE_PROTOCOL_ERROR == 1002
WS_CLOSE_LARGE_PAYLOAD == 1009
WS_CLOSE_UNEXPECTED == 1011

BIT0 == 128
BIT1 == 64
BIT2 == 32
BIT3 == 16

\* sizeof(frame->buf)
BufSize == 8

\* #define WS_OPCODE_VALID(x)
WS_OPCODE_VALID(x) ==
  x <= WS_OPCODE_TEXT \/ (x >= WS_OPCODE_CLOSE /\ x <= WS_OPCODE_PONG)

(***************************************************************************)
(* Bytes and byte order.                                                   *)
(***************************************************************************)
Byte == 0..255

\* (b & mask) == mask, for a one-bit mask
BitSet(b, mask) == (b \div mask) % 2 = 1

\* a ^ b on two bytes
Xor(a, b) ==
  LET bit(i) == ((a \div (2^i)) + (b \div (2^i))) % 2
  IN  bit(0) + 2 * bit(1) + 4 * bit(2) + 8 * bit(3)
      + 16 * bit(4) + 32 * bit(5) + 64 * bit(6) + 128 * bit(7)

\* a | b on two bytes
Or(a, b) ==
  LET bit(i) == IF BitSet(a, 2^i) \/ BitSet(b, 2^i) THEN 1 ELSE 0
  IN  bit(0) + 2 * bit(1) + 4 * bit(2) + 8 * bit(3)
      + 16 * bit(4) + 32 * bit(5) + 64 * bit(6) + 128 * bit(7)

\* x & 0xff on an int (two's complement for negative x)
LowByte(x) == x % 256

\* *((unsigned int *) buf): the first four bytes as a host unsigned int.
\* The value is kept as its four bytes, least significant first.
LoadU32(buf) == <<buf[1], buf[2], buf[3], buf[4]>>

\* ntohs(x): the argument is converted to uint16_t (its two low bytes),
\* which are then swapped
ntohs(w) == w[1] * 256 + w[2]

\* ntohl(x): the four bytes swapped
ntohl(w) == ((w[1] * 256 + w[2]) * 256 + w[3]) * 256 + w[4]

\* htons(x) stored through an unsigned short pointer: two bytes, big-endian
htons(x) == <<(x \div 256) % 256, x % 256>>

\* htonl(x) stored through an unsigned int pointer: four bytes, big-endian,
\* of x converted to 32 bits
htonl(x) ==
  <<(x \div 16777216) % 256, (x \div 65536) % 256, (x \div 256) % 256, x % 256>>

\* length > pow(2, 63) - 1, computed without leaving the 32-bit range
ExceedsInt63(n) == ((n \div 2097152) \div 2097152) \div 2097152 >= 1

Min(a, b) == IF a < b THEN a ELSE b

(***************************************************************************)
(* struct wss_frame and frame_init.                                        *)
(***************************************************************************)
ParseStates ==
  {"INITIAL", "LENGTH", "XLENGTH", "XLENGTH2", "MASK", "PAYLOAD"}

\* a payload buffer: NULL, or size bytes of which bytes have been stored
\* from the start (the rest is as malloc left it); term is the index
\* where the terminator was stored, -1 when none; freed: free() was called
\* on it
NullData ==
  [null |-> TRUE, size |-> 0, bytes |-> <<>>, term |-> -1, freed |-> FALSE]

\* memset(frame, 0, sizeof) and the three assignments of frame_init
frame_init ==
  [fin |-> 0, rsv1 |-> 0, rsv2 |-> 0, rsv3 |-> 0, opcode |-> 0,
   masked |-> 0, length |-> 0, key |-> <<0, 0, 0, 0>>, data |-> NullData,
   buf |-> <<0, 0, 0, 0, 0, 0, 0, 0>>,
   state |-> "INITIAL", maxread |-> 2, datapos |-> 0]

\* a WS_PARSE_NEXT without the reset of datapos: the parser the staging
\* buffer claim excludes
NextKeepPos(f, newstate, bytes) ==
  [f EXCEPT !.state = newstate, !.maxread = bytes]

\* WS_PARSE_NEXT(consumed, newstate, bytes), the assignments to the frame
WS_PARSE_NEXT(f, newstate, bytes) ==
  [f EXCEPT !.state = newstate, !.maxread = bytes, !.datapos = 0]

\* a read that stores at frame->buf whatever datapos is: the parser the
\* chunking claim excludes
StoreAtStart(f, rd) ==
  [i \in 1..BufSize |-> IF i <= Len(rd) THEN rd[i] ELSE f.buf[i]]

\* the bytes of rd stored at frame->buf + frame->datapos
StoreBuf(f, rd) ==
  [i \in 1..BufSize |->
     IF i > f.datapos /\ i <= f.datapos + Len(rd)
     THEN rd[i - f.datapos] ELSE f.buf[i]]

(***************************************************************************)
(* frame_internal_read: one read of at most maxread bytes into the staging *)
(* buffer, then the switch on the parse state.  f is the frame with the    *)
(* bytes already stored, cc the client's close code, res the number of     *)
(* bytes the read returned.  The result is the frame, the close code and   *)
(* the function's return value.                                            *)
(***************************************************************************)
Parsed(f, cc, r) == [frame |-> f, closecode |-> cc, res |-> r]

\* a WS_NEED_BYTES that takes the state for complete with the first bytes
\* it gets: the parser the state order claim excludes
NeedAny(f, c, res) == [f EXCEPT !.datapos = IF @ + res < c THEN c ELSE @ + res]

\* WS_NEED_BYTES(c): datapos += res, and the early return when incomplete
WS_NEED_BYTES(f, c, res) ==
  LET dp == f.datapos + res
  IN  IF dp < c
      THEN [f EXCEPT !.datapos = dp, !.maxread = c - dp]
      ELSE [f EXCEPT !.datapos = dp]

\* case WS_PARSE_MASK
ParseMask(f, cc, res) ==
  LET g == WS_NEED_BYTES(f, 4, res)
  IN  IF g.datapos < 4
      THEN Parsed(g, cc, 0)
      ELSE Parsed(WS_PARSE_NEXT([g EXCEPT !.key = SubSeq(g.buf, 1, 4)],
                                "PAYLOAD", g.length), cc, 0)

\* case WS_PARSE_XLENGTH2
ParseXLength2(f, cc, res) ==
  LET g == WS_NEED_BYTES(f, 8, res)
      h == [g EXCEPT !.length = ntohl(LoadU32(g.buf))]
  IN  IF g.datapos < 8
      THEN Parsed(g, cc, 0)
      ELSE IF ExceedsInt63(h.length)
      THEN Parsed(h, cc, -1)
      ELSE Parsed(WS_PARSE_NEXT(h, "MASK", 4), cc, 0)

\* case WS_PARSE_XLENGTH
ParseXLength(f, cc, res) ==
  LET g == WS_NEED_BYTES(f, 2, res)
      h == [g EXCEPT !.length = ntohs(LoadU32(g.buf))]
  IN  IF g.datapos < 2
      THEN Parsed(g, cc, 0)
      ELSE Parsed(WS_PARSE_NEXT(h, "MASK", 4), cc, 0)

\* case WS_PARSE_LENGTH, entered with pos bytes of the buffer consumed
ParseLength(f, cc, pos, res) ==
  LET b == f.buf[pos + 1]
      g == [f EXCEPT !.masked = IF BitSet(b, BIT0) THEN 1 ELSE 0]
      h == [g EXCEPT !.length = b % 128]
      n == IF h.length = 127 THEN WS_PARSE_NEXT(h, "XLENGTH2", 8)
           ELSE IF h.length = 126 THEN WS_PARSE_NEXT(h, "XLENGTH", 2)
           ELSE WS_PARSE_NEXT(h, "MASK", 1)
  IN  IF g.masked = 0
      THEN Parsed(g, WS_CLOSE_PROTOCOL_ERROR, -1)
      ELSE IF res - 1 = 0
      THEN Parsed(n, cc, 0)
      ELSE ParseXLength(n, cc, res - 1)

\* case WS_PARSE_INITIAL
ParseInitial(f, cc, res) ==
  LET b == f.buf[1]
      g == [f EXCEPT !.fin = IF BitSet(b, BIT0) THEN 1 ELSE 0,
                     !.rsv1 = IF BitSet(b, BIT1) THEN 1 ELSE 0,
                     !.rsv2 = IF BitSet(b, BIT2) THEN 1 ELSE 0,
                     !.rsv3 = IF BitSet(b, BIT3) THEN 1 ELSE 0]
      h == [g EXCEPT !.opcode = b % 16]
      n == WS_PARSE_NEXT(h, "LENGTH", 1)
  IN  IF g.rsv1 = 1 \/ g.rsv2 = 1 \/ g.rsv3 = 1
      THEN Parsed(g, WS_CLOSE_PROTOCOL_ERROR, 1)
      ELSE IF ~WS_OPCODE_VALID(h.opcode)
      THEN Parsed(h, WS_CLOSE_PROTOCOL_ERROR, -1)
      ELSE IF res - 1 = 0
      THEN Parsed(n, cc, 0)
      ELSE ParseLength(n, cc, 1, res - 1)

\* rd: the bytes the read returned; the empty sequence is a read that
\* returned 0 or -1
frame_internal_read(f, cc, rd) ==
  LET g   == [f EXCEPT !.buf = StoreBuf(f, rd)]
      res == Len(rd)
  IN  IF res <= 0 THEN Parsed(f, cc, -1)
      ELSE CASE f.state = "INITIAL"  -> ParseInitial(g, cc, res)
             [] f.state = "LENGTH"   -> ParseLength(g, cc, 0, res)
             [] f.state = "XLENGTH"  -> ParseXLength(g, cc, res)
             [] f.state = "XLENGTH2" -> ParseXLength2(g, cc, res)
             [] f.state = "MASK"     -> ParseMask(g, cc, res)
             [] f.state = "PAYLOAD"  -> Parsed(g, cc, 0)

\* the accessors of wss.h
wss_frame_opcode(f) == f.opcode
wss_frame_payload_length(f) == f.length
\* wss_frame_payload: the bytes stored in the buffer, none when it is NULL
wss_frame_payload(f) == IF f.data.null THEN <<>> ELSE f.data.bytes
wss_error_code(c) == c.closecode

\* *((unsigned short int *) p): the two bytes at p, as they lie in memory
LoadU16(p) == <<p[1], p[2]>>

\* wss_close_code without the byte swap
CloseCodeHostOrder(f) ==
  IF f.opcode # WS_OPCODE_CLOSE THEN -1
  ELSE IF wss_frame_payload_length(f) < 2 THEN 1005
  ELSE wss_frame_payload(f)[1] + 256 * wss_frame_payload(f)[2]

\* wss_close_code, where it reads bytes that have been stored
wss_close_code(f) ==
  IF f.opcode # WS_OPCODE_CLOSE THEN -1
  ELSE IF wss_frame_payload_length(f) < 2 THEN 1005
  ELSE ntohs(LoadU16(wss_frame_payload(f)))

\* assert(frame->maxread <= sizeof(frame->buf) - frame->datapos)
BufAssert(f) == f.maxread <= BufSize - f.datapos

(***************************************************************************)
(* State.                                                                  *)
(***************************************************************************)
VARIABLES
  chan,         \* the bytes written to the client's rfd and not yet read
  eof,          \* the peer has closed its end: a read of no bytes returns 0
  client,       \* struct wss_client: closecode and the frame slot
  frame2,       \* wss_read's temporary frame
  cur,          \* wss_read's frame pointer: "frame" (&client->frame) or "frame2"
  pc,           \* where wss_read is: idle, loop, payload, done, crashed
  ret,          \* wss_read's return value
  ready,        \* wss_read's ready argument
  full_length,  \* wss_read's full_length
  already,      \* read_payload's already
  length,       \* read_payload's length
  wire,         \* history: per physical frame of this call, the header and
                \* payload bytes taken from the channel
  oom,          \* history: an allocation has failed during this call
  peer,         \* history: the frames the raw peer has sent
  closed,       \* what wss_close_code returned to the caller, -2 before
                \* the call
  single,       \* history: the reads of this call so far were all reads
                \* of header bytes that returned one byte each
  wpc,          \* where wss_frame_write is: idle, preamble, payload, done
  warg,         \* the arguments of the write call in progress
  preamble,     \* wss_frame_write's preamble[10]
  wlen,         \* full_write's len
  sent,         \* history: the bytes the channel accepted during this call
  wret,         \* the write call's return value
  wbroken,      \* the client's wfd has failed: every write returns -1
  shortw,       \* history: a write of this call accepted part of its bytes
  wfailed,      \* history: a write of this call returned -1
  writes        \* history: the number of write calls made

rvars ==
  <<client, frame2, cur, pc, ret, ready, full_length, already, length, wire,
    oom, peer, closed, single>>
wvars ==
  <<wpc, warg, preamble, wlen, sent, wret, wbroken, shortw, wfailed, writes>>
vars == <<chan, eof, rvars, wvars>>

\* *frame in wss_read and read_payload
CurFrame == IF cur = "frame" THEN client.frame ELSE frame2

NoFrame == [hdr |-> <<>>, pay |-> <<>>]

\* the history with bytes appended to the current frame's header or payload
WireHdr(rd) == [wire EXCEPT ![Len(wire)].hdr = @ \o rd]
WirePay(rd) == [wire EXCEPT ![Len(wire)].pay = @ \o rd]

\* the sizes a read of at most n bytes can return
HeaderReads(n) == 1..n
PayloadReads(n) == {k \in 1..n : k <= MaxChunk \/ k = n}

\* the same loop with i counted from the start of the bytes of one read
UnmaskFromChunk(rd, key, from) ==
  [i \in 1..Len(rd) |-> Xor(rd[i], key[((i - 1) % 4) + 1])]

\* for (; i < already; i++) data[i] = data[i] ^ key[i % 4], on the bytes rd
\* stored at data + from
Unmask(rd, key, from) ==
  [i \in 1..Len(rd) |-> Xor(rd[i], key[((from + i - 1) % 4) + 1])]

(***************************************************************************)
(* wss_read.                                                               *)
(***************************************************************************)
\* the call, up to the for loop (lines 334-346); a caller does not read
\* again from a connection on which a read has failed
WssRead(r) ==
  /\ pc \in {"idle", "done"}
  /\ ret # -1
  /\ client' = [client EXCEPT !.frame = frame_init]
  /\ cur' = "frame"
  /\ full_length' = 0
  /\ ready' = r
  /\ pc' = "loop"
  /\ wire' = <<NoFrame>>
  /\ oom' = FALSE
  /\ closed' = -2
  /\ single' = TRUE
  /\ UNCHANGED <<chan, eof, frame2, ret, already, length, peer, wvars>>

\* poll returned 0: nothing to read within the timeout (lines 355-363)
PollTimeout ==
  /\ pc = "loop"
  /\ ready = 0
  /\ chan = <<>> /\ ~eof
  /\ client' = IF CurFrame.state # "INITIAL"
               THEN [client EXCEPT !.closecode = WS_CLOSE_PROTOCOL_ERROR]
               ELSE client
  /\ ret' = 0
  /\ pc' = "done"
  /\ UNCHANGED <<chan, eof, frame2, cur, ready, full_length, already, length,
                 wire, oom, peer, closed, single, wvars>>

\* wss_read returns r (the return statements and the break to line 395)
Return(c, f2, w, r) ==
  /\ client' = c
  /\ frame2' = f2
  /\ wire' = w
  /\ ret' = r
  /\ pc' = "done"
  /\ UNCHANGED <<cur, already, length>>

\* lines 384-392: the frame and its payload are complete
\* c, f2, w: the client, the temporary frame and the history at that point
FrameDone(c, f2, w) ==
  LET f == IF cur = "frame" THEN c.frame ELSE f2
  IN  IF f.fin = 0 /\ (f.opcode = WS_OPCODE_TEXT \/ f.opcode = WS_OPCODE_BINARY)
      THEN /\ client' = c
           /\ frame2' = frame_init
           /\ cur' = "frame2"
           /\ pc' = "loop"
           /\ wire' = Append(w, NoFrame)
           /\ UNCHANGED <<ret, already, length>>
      ELSE Return(c, f2, w, 1)

\* malloc(n): a fresh buffer, or NULL
Malloc(n, ok) ==
  IF ok THEN [null |-> FALSE, size |-> n, bytes |-> <<>>, term |-> -1,
              freed |-> FALSE]
  ELSE NullData

\* read_payload up to its while loop (lines 293-314), called from line 377.
\* ok: the allocation succeeds.  A store through a null client->frame.data
\* is undefined: the process is killed, or the store is lost and the
\* function goes on (survive).
ReadPayloadEntry(c, f2, w, ok, survive) ==
  LET f  == IF cur = "frame" THEN c.frame ELSE f2
      L  == f.length
      cont == f.opcode = WS_OPCODE_CONTINUE
      \* realloc(client->frame.data, client->frame.length + length + 1)
      grown == [c.frame.data EXCEPT !.null = FALSE,
                                    !.size = c.frame.length + L + 1]
      c1 == IF cont
            THEN [c EXCEPT !.frame.data = grown, !.frame.length = @ + L]
            ELSE IF cur = "frame"
            THEN [c EXCEPT !.frame.data = Malloc(L + 1, ok)]
            ELSE c
      g2 == IF ~cont /\ cur = "frame2"
            THEN [f2 EXCEPT !.data = Malloc(L + 1, ok)]
            ELSE f2
      \* client->frame.data[client->frame.length] = '\0'
      c2 == IF c1.frame.data.null THEN c1
            ELSE [c1 EXCEPT !.frame.data.term = c1.frame.length]
      f1 == IF cur = "frame" THEN c2.frame ELSE g2
  IN  IF cont /\ ~ok
      THEN \* free(client->frame.data); closecode = UNEXPECTED; return -1;
           \* then line 380
           Return([c EXCEPT !.frame.data.freed = ~c.frame.data.null,
                            !.closecode = WS_CLOSE_PROTOCOL_ERROR], f2, w, -1)
      ELSE IF c1.frame.data.null /\ ~survive
      THEN /\ pc' = "crashed"
           /\ client' = c1
           /\ frame2' = g2
           /\ wire' = w
           /\ UNCHANGED <<cur, ret, already, length>>
      ELSE IF f1.data.null
      THEN \* closecode = UNEXPECTED; return -1; then line 380
           Return([c2 EXCEPT !.closecode = WS_CLOSE_PROTOCOL_ERROR], g2, w, -1)
      ELSE /\ client' = c2
           /\ frame2' = g2
           /\ wire' = w
           /\ already' = 0
           /\ length' = L
           /\ pc' = "payload"
           /\ UNCHANGED <<cur, ret>>

\* what read(rfd, buf, n) can return: the empty sequence stands for 0
Reads(n, sizes(_)) ==
  IF chan = <<>> \/ n = 0
  THEN IF eof \/ n = 0 THEN {<<>>} ELSE {}
  ELSE {SubSeq(chan, 1, k) : k \in sizes(Min(n, Len(chan)))}

\* one turn of the for loop in which poll reports data, or is skipped:
\* frame_internal_read, and what follows it (lines 351-393)
HeaderRead ==
  /\ pc = "loop"
  /\ ready = 1 \/ chan # <<>> \/ eof
  /\ ready' = 0
  /\ UNCHANGED <<eof, peer, closed, wvars>>
  /\ IF ~BufAssert(CurFrame)
     THEN /\ pc' = "crashed"
          /\ UNCHANGED <<chan, client, frame2, cur, ret, full_length, already,
                         length, wire, oom, single>>
     ELSE \E rd \in Reads(CurFrame.maxread, HeaderReads) :
            LET p  == frame_internal_read(CurFrame, client.closecode, rd)
                c  == IF cur = "frame"
                      THEN [client EXCEPT !.frame = p.frame,
                                          !.closecode = p.closecode]
                      ELSE [client EXCEPT !.closecode = p.closecode]
                f2 == IF cur = "frame2" THEN p.frame ELSE frame2
                w  == WireHdr(rd)
                fl == full_length + p.frame.length
            IN  /\ chan' = SubSeq(chan, Len(rd) + 1, Len(chan))
                /\ single' = (single /\ Len(rd) = 1)
                /\ IF p.res # 0
                   THEN Return(c, f2, w, p.res) /\ UNCHANGED <<full_length, oom>>
                   ELSE IF p.frame.state # "PAYLOAD"
                   THEN /\ client' = c
                        /\ frame2' = f2
                        /\ wire' = w
                        /\ UNCHANGED <<cur, pc, ret, full_length, already, length,
                                       oom>>
                   ELSE /\ full_length' = fl
                        /\ IF fl > WS_MAX_PAYLOAD_LENGTH
                           THEN /\ Return([c EXCEPT !.closecode =
                                                      WS_CLOSE_LARGE_PAYLOAD],
                                          f2, w, -1)
                                /\ UNCHANGED oom
                           ELSE IF p.frame.length # 0
                           THEN \E ok, survive \in BOOLEAN :
                                  /\ ReadPayloadEntry(c, f2, w, ok, survive)
                                  /\ oom' = (oom \/ ~ok)
                           ELSE FrameDone(c, f2, w) /\ UNCHANGED oom

\* one turn of read_payload's while loop (lines 315-330); when it ends the
\* loop, the return to wss_read and lines 384-392
PayloadRead ==
  /\ pc = "payload"
  /\ single' = FALSE
  /\ UNCHANGED <<eof, ready, full_length, oom, peer, closed, wvars>>
  /\ \E rd \in Reads(length, PayloadReads) :
       LET f  == CurFrame
           d  == [f.data EXCEPT
                    !.bytes = SubSeq(@, 1, already) \o Unmask(rd, f.key, already)]
           c  == IF cur = "frame" THEN [client EXCEPT !.frame.data = d] ELSE client
           f2 == IF cur = "frame2" THEN [frame2 EXCEPT !.data = d] ELSE frame2
           w  == WirePay(rd)
       IN  /\ chan' = SubSeq(chan, Len(rd) + 1, Len(chan))
           /\ IF rd = <<>>
              THEN Return([client EXCEPT !.closecode = WS_CLOSE_PROTOCOL_ERROR],
                          frame2, wire, -1)
              ELSE IF length - Len(rd) > 0
              THEN /\ client' = c
                   /\ frame2' = f2
                   /\ wire' = w
                   /\ already' = already + Len(rd)
                   /\ length' = length - Len(rd)
                   /\ UNCHANGED <<cur, pc, ret>>
              ELSE FrameDone(c, f2, w)

\* wss_frame_destroy(wss_client_frame(client)) by the caller after a read:
\* free of a live buffer, and the caller is between reads again; free of
\* a freed buffer kills the process
WssFrameDestroy ==
  /\ pc = "done"
  /\ ~client.frame.data.null
  /\ IF client.frame.data.freed
     THEN pc' = "crashed" /\ UNCHANGED client
     ELSE client' = [client EXCEPT !.frame.data = NullData] /\ pc' = "idle"
  /\ UNCHANGED <<chan, eof, frame2, cur, ret, ready, full_length, already,
                 length, wire, oom, peer, closed, single, wvars>>

\* wss_close_code(wss_client_frame(client)) by the caller after a read that
\* returned 1.  A load through a null payload kills the process; a load of
\* bytes that were never stored gives what malloc left there.
WssCloseCode ==
  /\ pc = "done" /\ ret = 1
  /\ closed = -2
  /\ LET f == client.frame
         loads == f.opcode = WS_OPCODE_CLOSE /\ wss_frame_payload_length(f) >= 2
     IN  IF loads /\ f.data.null
         THEN pc' = "crashed" /\ UNCHANGED closed
         ELSE IF loads /\ Len(f.data.bytes) < 2
         THEN pc' = pc /\ closed' \in {0, 52428}
         ELSE pc' = pc /\ closed' = wss_close_code(f)
  /\ UNCHANGED <<chan, eof, client, frame2, cur, ret, ready, full_length,
                 already, length, wire, oom, peer, single, wvars>>

(***************************************************************************)
(* wss_write, wss_close, wss_frame_write, full_write.                      *)
(***************************************************************************)
\* what the stack holds where preamble[10] is allocated
StackBytes == {0, 204}

\* unsigned char payload_len = len > 0xffff ? 127 : len > 125 ? 126 : len
PayloadLen(len) == IF len > 65535 THEN 127 ELSE IF len > 125 THEN 126 ELSE len

\* preamble_bytes
PreambleBytes(len) ==
  IF PayloadLen(len) = 126 THEN 4 ELSE IF PayloadLen(len) = 127 THEN 10 ELSE 2

\* the preamble wss_frame_write builds in stack, an array of 10 bytes that
\* is not initialized (lines 442-461)
BuildPreamble(stack, opcode, len, fin) ==
  LET b0 == Or(IF fin # 0 THEN BIT0 ELSE 0, LowByte(opcode))
      b1 == PayloadLen(len) % 128
      x  == IF PayloadLen(len) = 126 THEN htons(len)
            ELSE IF PayloadLen(len) = 127 THEN htonl(len)
            ELSE <<>>
  IN  [i \in 1..10 |->
         IF i = 1 THEN b0
         ELSE IF i = 2 THEN b1
         ELSE IF i - 2 <= Len(x) THEN x[i - 2]
         ELSE stack[i]]

\* wss_frame_write(client, opcode, payload, len, 1) up to its first
\* full_write; call names the public function that was called
FrameWrite(call, code, opcode, payload, len, null, stack) ==
  /\ warg' = [call |-> call, code |-> code, opcode |-> opcode,
              payload |-> payload, len |-> len, null |-> null]
  /\ sent' = <<>>
  /\ shortw' = FALSE
  /\ wfailed' = FALSE
  /\ IF ~WS_OPCODE_VALID(opcode)
     THEN /\ wret' = -1
          /\ wpc' = "done"
          /\ UNCHANGED <<preamble, wlen>>
     ELSE /\ preamble' = BuildPreamble(stack, opcode, len, 1)
          /\ wlen' = PreambleBytes(len)
          /\ wpc' = "preamble"
          /\ UNCHANGED wret

\* the sizes write(fd, buf, n) can return when it succeeds
WriteSizes(n) == IF n <= MaxDrain THEN 1..n ELSE {n}

\* the bytes full_write(fd, buf, len) passes to write when wlen are left:
\* buf is not advanced
WriteBuf == IF wpc = "preamble" THEN preamble ELSE warg.payload

\* one turn of full_write's loop in which write accepts k bytes; at the end
\* of the loop, the rest of wss_frame_write (lines 463-467)
WriteStep ==
  /\ wpc \in {"preamble", "payload"}
  /\ ~wbroken
  /\ \E k \in WriteSizes(wlen) :
       /\ chan' = chan \o SubSeq(WriteBuf, 1, k)
       /\ sent' = sent \o SubSeq(WriteBuf, 1, k)
       /\ shortw' = (shortw \/ k < wlen)
       /\ IF wlen - k > 0
          THEN wlen' = wlen - k /\ UNCHANGED <<wpc, wret>>
          ELSE IF wpc = "preamble" /\ ~warg.null /\ warg.len > 0
          THEN wlen' = warg.len /\ wpc' = "payload" /\ UNCHANGED wret
          ELSE wlen' = 0 /\ wpc' = "done" /\ wret' = 0
  /\ UNCHANGED <<eof, rvars, warg, preamble, wbroken, wfailed, writes>>

\* one turn of full_write's loop in which write returns -1: len is not
\* changed and the loop goes on
WriteError ==
  /\ wpc \in {"preamble", "payload"}
  /\ wbroken
  /\ wfailed' = TRUE
  /\ UNCHANGED <<chan, eof, rvars, wpc, warg, preamble, wlen, sent, wret,
                 wbroken, shortw, writes>>

\* the descriptor fails while a frame is being written
ChannelBreak ==
  /\ wpc \in {"preamble", "payload"}
  /\ ~wbroken
  /\ wbroken' = TRUE
  /\ UNCHANGED <<chan, eof, rvars, wpc, warg, preamble, wlen, sent, wret, shortw,
                 wfailed, writes>>

\* a caller starts a write when the reader is between calls and has
\* drained the channel, and counts it
CanWrite ==
  /\ wpc \in {"idle", "done"}
  /\ writes < MaxWrites
  /\ chan = <<>>
  /\ pc \in {"idle", "done"}
  /\ writes' = writes + 1

\* wss_write(client, opcode, payload, len); payload is NULL when null
WssWrite(opcode, payload, null) ==
  /\ CanWrite
  /\ \E s \in StackBytes :
       FrameWrite("write", 0, opcode, payload, Len(payload), null,
                  [i \in 1..10 |-> s])
  /\ UNCHANGED <<chan, eof, rvars, wbroken>>

\* wss_close(client, code)
WssClose(code) ==
  /\ CanWrite
  /\ IF code < 1000 /\ code > 1011 /\ code # 1015
     THEN /\ wret' = -1
          /\ wpc' = "done"
          /\ sent' = <<>>
          /\ shortw' = FALSE
          /\ wfailed' = FALSE
          /\ warg' = [call |-> "close", code |-> code, opcode |-> WS_OPCODE_CLOSE,
                      payload |-> <<>>, len |-> 0, null |-> FALSE]
          /\ UNCHANGED <<preamble, wlen>>
     ELSE \E s \in StackBytes :
            FrameWrite("close", code, WS_OPCODE_CLOSE, htons(code), 2, FALSE,
                       [i \in 1..10 |-> s])
  /\ UNCHANGED <<chan, eof, rvars, wbroken>>

(***************************************************************************)
(* What a raw peer puts on the read channel: frames in the layout that     *)
(* frame_internal_read and read_payload take apart.                        *)
(***************************************************************************)
\* the first header byte; rsv is RSV1..RSV3 as a number 0..7
Byte0(fin, rsv, opcode) == fin * 128 + rsv * 16 + opcode

\* a frame: the header fields, the extended length bytes, the key bytes
\* (none without the mask bit) and the payload bytes as they are sent
Frame(fin, rsv, opcode, mask, len7, ext, key, pay) ==
  [fin |-> fin, rsv |-> rsv, opcode |-> opcode, mask |-> mask, len7 |-> len7,
   ext |-> ext, key |-> key, pay |-> pay]

\* the bytes of a frame on the wire
Encode(f) ==
  <<Byte0(f.fin, f.rsv, f.opcode), f.mask * 128 + f.len7>>
    \o f.ext \o f.key \o f.pay

RECURSIVE EncodeAll(_)
EncodeAll(fs) == IF fs = <<>> THEN <<>> ELSE Encode(Head(fs)) \o EncodeAll(Tail(fs))

Key0 == <<0, 0, 0, 0>>
Key1 == <<55, 250, 33, 61>>
Keys == {Key0, Key1}

\* n bytes 1, 2, ..., n (mod 256)
Ramp(n) == [i \in 1..n |-> i % 256]

\* a masked frame with a 7-bit length and its whole payload
Small(fin, rsv, opcode, key, pay) ==
  Frame(fin, rsv, opcode, 1, Len(pay), <<>>, key, pay)

\* 64-bit lengths: 2, 65536, 2^32, 25 MiB + 1, (25 MiB + 1) * 2^32 and
\* 25 MiB * 2^32
X2Lengths ==
  { <<0, 0, 0, 0, 0, 0, 0, 2>>,
    <<0, 0, 0, 0, 0, 1, 0, 0>>,
    <<0, 0, 0, 1, 0, 0, 0, 0>>,
    <<0, 0, 0, 0, 1, 144, 0, 1>>,
    <<1, 144, 0, 1, 0, 0, 0, 0>>,
    <<1, 144, 0, 0, 0, 0, 0, 0>> }

\* TEXT, CONTINUATION and CLOSE, with and without FIN
Heads == {<<1, 1>>, <<0, 1>>, <<1, 0>>, <<0, 0>>, <<1, 8>>}

\* 7-bit lengths
SmallFrames ==
  {Small(h[1], 0, h[2], k, w) :
     h \in Heads, k \in Keys, w \in {<<>>, <<65>>, <<127>>, <<65, 66>>, Ramp(5)}}

\* 16-bit lengths: 126 and 2 with the payload, 256 and 65535 cut short
XFrames ==
  UNION {{ Frame(h[1], 0, h[2], 1, 126, <<0, 126>>, Key1, Ramp(126)),
           Frame(h[1], 0, h[2], 1, 126, <<0, 2>>, Key1, <<65, 66>>),
           Frame(h[1], 0, h[2], 1, 126, <<1, 0>>, Key0, <<65, 66>>),
           Frame(h[1], 0, h[2], 1, 126, <<255, 255>>, Key1, <<65>>) } :
         h \in Heads}

\* 64-bit lengths, each followed by a key and two bytes
X2Frames ==
  {Frame(h[1], 0, h[2], 1, 127, x, Key1, <<65, 66>>) :
     h \in Heads, x \in X2Lengths}

\* no mask bit
PlainFrames ==
  UNION {{ Frame(h[1], 0, h[2], 0, 0, <<>>, <<>>, <<>>),
           Frame(h[1], 0, h[2], 0, 1, <<>>, <<>>, <<65>>),
           Frame(h[1], 0, h[2], 0, 126, <<0, 126>>, <<>>, <<65>>) } :
         h \in Heads}

\* every opcode, with and without FIN, before one masked byte
OpFrames ==
  {Small(fin, 0, op, Key1, <<65>>) : fin \in {0, 1}, op \in 0..15}

\* reserved bits, before a masked and before an unmasked byte
RsvFrames ==
  {Small(1, rsv, op, Key1, <<65>>) : rsv \in {1, 2, 4, 7}, op \in {1, 3}}
  \cup {Frame(1, rsv, op, 0, 1, <<>>, <<>>, <<65>>) :
          rsv \in {1, 2, 4, 7}, op \in {1, 3}}

Frames ==
  SmallFrames \cup XFrames \cup X2Frames \cup PlainFrames \cup OpFrames
    \cup RsvFrames

\* frames of which the peer sends a part only
CutFrames ==
  { Small(1, 0, 1, Key1, <<65, 66>>),
    Frame(1, 0, 1, 1, 126, <<0, 2>>, Key1, <<65, 66>>),
    Frame(1, 0, 1, 1, 127, <<0, 0, 0, 0, 0, 0, 0, 2>>, Key1, <<>>) }

\* the first frame of a stream of several
LeadFrames ==
  {Small(0, 0, op, Key1, w) : op \in {0, 1, 9}, w \in {<<>>, <<65>>, <<65, 66>>}}
  \cup {Small(1, 0, 1, Key1, <<65>>), Small(0, 0, 2, Key1, <<65>>)}

\* the frames after it
NextFrames ==
  {Small(fin, 0, op, Key1, w) :
     fin \in {0, 1}, op \in {0, 1, 9}, w \in {<<>>, <<67>>, <<67, 68>>}}
  \cup { Frame(1, 0, 0, 0, 1, <<>>, <<>>, <<67>>),
         Small(1, 4, 0, Key1, <<67>>),
         Small(1, 0, 3, Key1, <<67>>),
         Frame(1, 0, 0, 1, 126, <<0, 1>>, Key1, <<67>>),
         Frame(1, 0, 0, 1, 127, <<1, 144, 0, 0, 0, 0, 0, 0>>, Key1, <<67>>),
         Frame(1, 0, 0, 1, 127, <<1, 144, 0, 0, 0, 0, 0, 1>>, Key1, <<67>>) }

RECURSIVE Multi(_)
Multi(n) == IF n = 1 THEN {<<f>> : f \in LeadFrames}
            ELSE {Append(s, f) : s \in Multi(n - 1), f \in NextFrames}

\* the streams of frames a peer sends whole
Streams ==
  {<<>>} \cup {<<f>> : f \in Frames} \cup UNION {Multi(n) : n \in 2..MaxFrames}

(***************************************************************************)
(* What a caller of the writer passes.                                     *)
(***************************************************************************)
\* n bytes 0x03
Fill(n) == [i \in 1..n |-> 3]

WriteOpcodes == {-1, 0, 1, 2, 3, 8, 9, 10, 11, 16}

SmallPayloads ==
  {<<>>, <<104>>, <<104, 105>>, <<129, 129, 0, 0, 0, 0, 104>>}

BigPayloads == {Fill(125), Fill(126), Fill(65535), Fill(65536)}

CloseCodes == {999, 1000, 1002, 1005, 1011, 1012, 1015, 1016}

(***************************************************************************)
(* The specifications.                                                     *)
(***************************************************************************)
\* calloc(1, sizeof(*client)) in wss_client_new
ZeroClient == [closecode |-> 0, frame |-> [frame_init EXCEPT !.maxread = 0]]

InitCommon ==
  /\ client = ZeroClient
  /\ frame2 = frame_init
  /\ cur = "frame"
  /\ pc = "idle"
  /\ ret = 0
  /\ ready = 0
  /\ full_length = 0
  /\ already = 0
  /\ length = 0
  /\ wire = <<NoFrame>>
  /\ oom = FALSE
  /\ closed = -2
  /\ single = TRUE
  /\ wpc = "idle"
  /\ warg = [call |-> "write", code |-> 0, opcode |-> 0, payload |-> <<>>,
             len |-> 0, null |-> TRUE]
  /\ preamble = [i \in 1..10 |-> 0]
  /\ wlen = 0
  /\ sent = <<>>
  /\ wret = 0
  /\ wbroken = FALSE
  /\ shortw = FALSE
  /\ wfailed = FALSE
  /\ writes = 0

\* a client reading what a raw peer has sent: whole frames, or the first
\* bytes of one frame
Init ==
  /\ peer \in Streams \cup {<<f>> : f \in CutFrames}
  /\ chan \in IF Len(peer) = 1 /\ peer[1] \in CutFrames
              THEN {SubSeq(Encode(peer[1]), 1, n) : n \in 1..Len(Encode(peer[1]))}
              ELSE {EncodeAll(peer)}
  /\ eof \in BOOLEAN
  /\ InitCommon

Reader ==
  \/ \E r \in {0, 1} : WssRead(r)
  \/ PollTimeout
  \/ HeaderRead
  \/ PayloadRead
  \/ WssFrameDestroy
  \/ WssCloseCode

Next == Reader

Spec == Init /\ [][Next]_vars

\* two clients on the two ends of a channel: one writes, the other reads
InitLoop ==
  /\ peer = <<>>
  /\ chan = <<>>
  /\ eof = FALSE
  /\ InitCommon

Writer ==
  \/ \E op \in WriteOpcodes, p \in SmallPayloads : WssWrite(op, p, FALSE)
  \/ \E op \in {1, 2}, p \in BigPayloads : WssWrite(op, p, FALSE)
  \/ \E op \in WriteOpcodes : WssWrite(op, <<>>, TRUE)
  \/ \E code \in CloseCodes : WssClose(code)
  \/ WriteStep
  \/ WriteError
  \/ ChannelBreak

NextLoop == Writer \/ Reader

SpecLoop == InitLoop /\ [][NextLoop]_vars

\* the same, with a thread inside full_write's loop taking its next turn
SpecLive == SpecLoop /\ WF_vars(WriteStep \/ WriteError)

(***************************************************************************)
(* Notions the properties are stated with.                                 *)
(***************************************************************************)
SixOpcodes ==
  {WS_OPCODE_CONTINUE, WS_OPCODE_TEXT, WS_OPCODE_BINARY, WS_OPCODE_CLOSE,
   WS_OPCODE_PING, WS_OPCODE_PONG}

RECURSIVE Taken(_)
\* the number of bytes this call of wss_read has taken from the channel
Taken(w) ==
  IF w = <<>> THEN 0
  ELSE Len(Head(w).hdr) + Len(Head(w).pay) + Taken(Tail(w))

\* this call of wss_read started at the first byte the peer sent, with
\* everything the peer sent in the channel
FromStart == Taken(wire) + Len(chan) = Len(EncodeAll(peer))

\* the frame of the current call that is being read
Last == wire[Len(wire)]

\* payload bytes with key k taken off
Unmasked(f) == [i \in 1..Len(f.pay) |-> Xor(f.pay[i], f.key[((i - 1) % 4) + 1])]

RECURSIVE Joined(_)
Joined(fs) == IF fs = <<>> THEN <<>> ELSE Unmasked(Head(fs)) \o Joined(Tail(fs))

\* a masked frame with no reserved bit, a 7-bit length and that many bytes
Sound(f) ==
  f.rsv = 0 /\ f.mask = 1 /\ f.len7 <= 125 /\ f.ext = <<>> /\ Len(f.key) = 4
    /\ Len(f.pay) = f.len7

\* a TEXT or BINARY frame without FIN, then CONTINUATION frames of which
\* the last one, and no other, has FIN
Fragmented(fs) ==
  /\ Len(fs) >= 2
  /\ fs[1].fin = 0
  /\ fs[1].opcode \in {WS_OPCODE_TEXT, WS_OPCODE_BINARY}
  /\ \A i \in 1..Len(fs) : Sound(fs[i])
  /\ \A i \in 2..Len(fs) :
       /\ fs[i].opcode = WS_OPCODE_CONTINUE
       /\ fs[i].fin = IF i = Len(fs) THEN 1 ELSE 0

(***************************************************************************)
(* Properties.                                                             *)
(***************************************************************************)
\* C1: round trip.  When wss_write of a TEXT or BINARY message has put a
\* frame on the channel and the wss_read on the other end that started at
\* that frame has returned, the read has returned 1 and its frame has the
\* written opcode, the written length and the written payload bytes.
C1_RoundTrip ==
  ( /\ wpc = "done" /\ wret = 0 /\ warg.call = "write" /\ ~warg.null
    /\ warg.opcode \in {WS_OPCODE_TEXT, WS_OPCODE_BINARY}
    /\ ~shortw
    /\ pc = "done" /\ ~oom
    /\ Taken(wire) > 0
    /\ Taken(wire) + Len(chan) = Len(sent) )
  => /\ ret = 1
     /\ wss_frame_opcode(client.frame) = warg.opcode
     /\ wss_frame_payload_length(client.frame) = warg.len
     /\ wss_frame_payload(client.frame) = warg.payload

\* C2: fragmentation reassembly.  When the peer has sent a TEXT or BINARY
\* frame without FIN and then one or more CONTINUATION frames, the last
\* with FIN, the wss_read that started at the first of them returns 1 with
\* the first frame's opcode, the sum of the lengths and the unmasked
\* payloads joined in order.  Stated here for a TEXT first frame: a BINARY
\* frame is refused at its first byte (C3).
C2_Reassembly ==
  ( /\ pc = "done" /\ FromStart /\ Fragmented(peer) /\ ~oom
    /\ peer[1].opcode = WS_OPCODE_TEXT )
  => /\ ret = 1
     /\ wss_frame_opcode(client.frame) = peer[1].opcode
     /\ wss_frame_payload_length(client.frame) = Len(Joined(peer))
     /\ wss_frame_payload(client.frame) = Joined(peer)

\* the reserved bits of a first header byte, as a number 0..7
RsvBits(b) == (b \div 16) % 8

\* C3: opcode validation on read.  Once wss_read has taken the first two
\* bytes of a frame that has no reserved bit and has the mask bit, the
\* parser has gone past the opcode and the mask bit when the opcode is one
\* of the six, and wss_read has returned -1 with close code 1002 when it is
\* any other value.
C3_ReadOpcode ==
  LET h == wire[1].hdr
  IN  (Len(h) >= 2 /\ RsvBits(h[1]) = 0 /\ h[2] >= 128)
      => IF (h[1] % 16) \in SixOpcodes
         THEN client.frame.state \in {"XLENGTH", "XLENGTH2", "MASK", "PAYLOAD"}
         ELSE pc = "done" /\ ret = -1
              /\ wss_error_code(client) = WS_CLOSE_PROTOCOL_ERROR

\* C4: opcode validation on write.  wss_write returns -1 and the channel
\* has accepted no byte when the opcode is not one of the six; for each of
\* the six it returns 0 and the channel has accepted bytes.
C4_WriteOpcode ==
  (wpc = "done" /\ warg.call = "write")
  => IF warg.opcode \in SixOpcodes
     THEN wret = 0 /\ sent # <<>>
     ELSE wret = -1 /\ sent = <<>>

\* C5: RSV rejection.  When wss_read has returned and the first byte of
\* the frame it was reading has a reserved bit, it has returned -1, the
\* close code is 1002, no payload byte of the frame was read and the frame
\* has no payload buffer.
C5_RsvRejected ==
  (pc = "done" /\ Last.hdr # <<>> /\ RsvBits(Last.hdr[1]) # 0)
  => /\ ret = -1
     /\ wss_error_code(client) = WS_CLOSE_PROTOCOL_ERROR
     /\ Last.pay = <<>>
     /\ CurFrame.data.null

\* C6: unmasked-frame rejection.  When wss_read has returned and the
\* second byte of the frame it was reading has no mask bit, it has returned
\* -1, the close code is 1002 and no byte after the second was read.
C6_UnmaskedRejected ==
  (pc = "done" /\ Len(Last.hdr) >= 2 /\ Last.hdr[2] < 128)
  => /\ ret = -1
     /\ wss_error_code(client) = WS_CLOSE_PROTOCOL_ERROR
     /\ Len(Last.hdr) = 2
     /\ Last.pay = <<>>

\* the k bytes of n, most significant first, for n below 2^32
BigEndian(n, k) ==
  [i \in 1..k |-> IF k - i >= 4 THEN 0 ELSE (n \div (256 ^ (k - i))) % 256]

\* C7: extended-length decoding.  When the parser has reached PAYLOAD on a
\* masked frame whose 7-bit length is 126 or 127, the length it has
\* recorded is the big-endian value of the 2 or 8 bytes after the second
\* byte, and a wss_read that returns 1 has read that many payload bytes.
\* (A first frame with opcode CONTINUATION is left out: read_payload adds
\* to its length again.)
C7_ExtendedLength ==
  LET h == Last.hdr
      n == IF h[2] % 128 = 126 THEN 2 ELSE 8
  IN  ( /\ Len(h) >= 2 /\ h[2] >= 128 /\ h[2] % 128 \in {126, 127}
        /\ CurFrame.state = "PAYLOAD"
        /\ ~(cur = "frame" /\ CurFrame.opcode = WS_OPCODE_CONTINUE) )
      => /\ BigEndian(CurFrame.length, n) = SubSeq(h, 3, 2 + n)
         /\ (pc = "done" /\ ret = 1) => Len(Last.pay) = CurFrame.length

\* the header of a frame with FIN, no mask bit and payload length len
WireHeader(opcode, len) ==
  IF len <= 125 THEN <<128 + opcode, len>>
  ELSE IF len <= 65535 THEN <<128 + opcode, 126>> \o BigEndian(len, 2)
  ELSE <<128 + opcode, 127>> \o BigEndian(len, 8)

\* C8: frame writer wire format.  When a write with one of the six opcodes
\* has returned 0 and no write was accepted in part, the channel has
\* accepted the header for that opcode and length and then the payload.
C8_WireFormat ==
  ( /\ wpc = "done" /\ wret = 0 /\ ~warg.null /\ ~shortw
    /\ warg.opcode \in SixOpcodes )
  => sent = WireHeader(warg.opcode, warg.len) \o warg.payload

\* the header h of a frame is complete: two bytes with the mask bit, the
\* extended length and the key
Complete(h) ==
  /\ Len(h) >= 2
  /\ h[2] >= 128
  /\ Len(h) = 6 + (IF h[2] % 128 = 126 THEN 2 ELSE IF h[2] % 128 = 127 THEN 8 ELSE 0)

\* the length a complete header declares, or WS_MAX_PAYLOAD_LENGTH + 1
\* when it declares more than that
Declared(h) ==
  LET len7 == h[2] % 128
      low  == ((h[7] * 256 + h[8]) * 256 + h[9]) * 256 + h[10]
  IN  IF len7 <= 125 THEN len7
      ELSE IF len7 = 126 THEN h[3] * 256 + h[4]
      ELSE IF h[3] # 0 \/ h[4] # 0 \/ h[5] # 0 \/ h[6] # 0 \/ h[7] >= 128
      THEN WS_MAX_PAYLOAD_LENGTH + 1
      ELSE Min(low, WS_MAX_PAYLOAD_LENGTH + 1)

RECURSIVE DeclaredSum(_)
\* the sum over the frames of this call whose header is complete
DeclaredSum(w) ==
  IF w = <<>> THEN 0
  ELSE (IF Complete(Head(w).hdr) THEN Declared(Head(w).hdr) ELSE 0)
       + DeclaredSum(Tail(w))

\* C9: oversized payload rejection.  As soon as the lengths declared by
\* the frames of this call add up to more than WS_MAX_PAYLOAD_LENGTH,
\* wss_read has returned -1 with close code 1009 and has read no payload
\* byte of the last frame nor allocated a buffer for it; and the close code
\* is 1009 only then.
C9_Oversize ==
  /\ DeclaredSum(wire) > WS_MAX_PAYLOAD_LENGTH
     => /\ pc \in {"done", "idle"} /\ ret = -1
        /\ wss_error_code(client) = WS_CLOSE_LARGE_PAYLOAD
        /\ Last.pay = <<>>
        /\ cur = "frame" => client.frame.data.null
  /\ wss_error_code(client) = WS_CLOSE_LARGE_PAYLOAD
     => DeclaredSum(wire) > WS_MAX_PAYLOAD_LENGTH

\* the close codes wss.h allows wss_close to send
SendableCodes == (1000..1011) \cup {1015}

\* C10: send-close validation.  wss_close returns -1 and the channel has
\* accepted no byte for a code outside 1000..1011 and 1015; for a code
\* inside it returns 0 and (no write being accepted in part) the channel
\* has accepted a CLOSE frame whose payload is the code in two bytes,
\* most significant first.
C10_CloseCode ==
  (wpc = "done" /\ warg.call = "close")
  => IF warg.code \in SendableCodes
     THEN /\ wret = 0
          /\ ~shortw => sent = <<128 + WS_OPCODE_CLOSE, 2>> \o BigEndian(warg.code, 2)
     ELSE wret = -1 /\ sent = <<>>

\* C11: writes fully drain.  When a write call that built a frame has
\* returned 0, the channel has accepted the bytes of the header the call
\* built and then the bytes of the payload, each once and in order,
\* whatever part of them each write accepted.
C11_FullDrain ==
  (wpc = "done" /\ wret = 0 /\ ~warg.null /\ warg.opcode \in SixOpcodes)
  => sent = SubSeq(preamble, 1, PreambleBytes(warg.len)) \o warg.payload

\* C12: failure carries a close code.  When wss_read has returned after
\* taking at least one byte of a frame, and it returned -1 (a validation
\* error, a failed read), or it returned 0 (a timeout within the frame),
\* or the frame has a reserved bit, wss_error_code gives a code that
\* wss_close sends.
C12_CloseCodeSet ==
  ( /\ pc = "done" /\ Last.hdr # <<>>
    /\ ret \in {-1, 0} \/ RsvBits(Last.hdr[1]) # 0 )
  => wss_error_code(client) \in SendableCodes

RECURSIVE Payloads(_)
\* the payload bytes this call has taken from the channel, frame by frame
Payloads(w) == IF w = <<>> THEN <<>> ELSE Head(w).pay \o Payloads(Tail(w))

\* C13: reported length equals delivered bytes.  When wss_read has
\* returned 1, wss_frame_payload_length is the number of payload bytes the
\* call has taken from the channel, and that is the number of bytes stored
\* in the buffer wss_frame_payload returns.
C13_LengthIsDelivered ==
  (pc = "done" /\ ret = 1)
  => /\ wss_frame_payload_length(client.frame) = Len(Payloads(wire))
     /\ wss_frame_payload_length(client.frame)
          = Len(wss_frame_payload(client.frame))

\* C14: benign "no data" result.  Every step in which wss_read returns 0
\* is taken when the call has taken no byte from the channel, and leaves
\* the close code as it was.
C14_NoData ==
  [][ (pc # "done" /\ pc' = "done" /\ ret' = 0)
      => (Taken(wire) = 0 /\ Taken(wire') = 0
          /\ wss_error_code(client') = wss_error_code(client)) ]_vars

\* the status a CLOSE frame carries: its first two payload bytes as sent,
\* with the key that ends its header taken off, most significant first
CloseStatus ==
  LET h == wire[1].hdr
      w == wire[1].pay
      k == SubSeq(h, Len(h) - 3, Len(h))
  IN  Xor(w[1], k[1]) * 256 + Xor(w[2], k[2])

\* C15: close-code decoding.  What wss_close_code has returned for the
\* frame of the last read is -1 when the frame's opcode is not CLOSE, 1005
\* when it is CLOSE and fewer than 2 payload bytes came with it, and
\* otherwise the first two payload bytes as a big-endian number.
C15_CloseCode ==
  closed # -2
  => IF wss_frame_opcode(client.frame) # WS_OPCODE_CLOSE THEN closed = -1
     ELSE IF Len(wire[1].pay) < 2 THEN closed = 1005
     ELSE closed = CloseStatus

\* a CLOSE frame with 5 payload bytes and a nonzero key has been decoded
C15_Witness ==
  /\ closed >= 0 /\ closed # 1005
  /\ Len(wire[1].pay) = 5
  /\ client.frame.key = Key1
  /\ closed = Xor(1, 55) * 256 + Xor(2, 250)

\* a TEXT frame without FIN, then CONTINUATION frames, with or without FIN
Continued(fs) ==
  /\ Len(fs) >= 2
  /\ fs[1].fin = 0
  /\ fs[1].opcode = WS_OPCODE_TEXT
  /\ \A i \in 1..Len(fs) : Sound(fs[i])
  /\ \A i \in 2..Len(fs) : fs[i].opcode = WS_OPCODE_CONTINUE

\* C16: reassembly continues until FIN.  When the peer has sent a TEXT
\* frame without FIN and then CONTINUATION frames, and the wss_read that
\* started at the first of them has returned 1, the last frame it read is
\* a later frame than the first and has FIN.
C16_UntilFin ==
  (pc = "done" /\ ret = 1 /\ FromStart /\ Continued(peer))
  => /\ Len(wire) >= 2
     /\ Last.hdr # <<>>
     /\ Last.hdr[1] >= 128

\* C17: allocation failure is reported as an error value.  Once an
\* allocation of this call has failed, wss_read has returned -1 and the
\* close code is 1011; the process has not been killed by a store through
\* the missing buffer.
C17_AllocFailure ==
  oom => /\ pc \in {"done", "idle"}
         /\ ret = -1
         /\ wss_error_code(client) = WS_CLOSE_UNEXPECTED

\* C18: write terminates on a hard channel failure.  Once a write of a
\* write call has returned -1 on a descriptor that has failed, the call
\* eventually returns, and returns -1.
C18_WriteTerminates ==
  (wbroken /\ wfailed) ~> (wpc = "done" /\ wret = -1)

\* C19: fragmented control frame is a protocol error.  When wss_read has
\* returned and the frame it was reading begins with a byte that has no
\* FIN, no reserved bit and opcode CLOSE, PING or PONG, it has not returned
\* 1; and when the whole header of that frame was taken, it has returned -1
\* and the close code is 1002.
C19_FragmentedControl ==
  ( /\ pc = "done" /\ Last.hdr # <<>>
    /\ Last.hdr[1] \in {WS_OPCODE_CLOSE, WS_OPCODE_PING, WS_OPCODE_PONG} )
  => /\ ret # 1
     /\ Complete(Last.hdr)
          => ret = -1 /\ wss_error_code(client) = WS_CLOSE_PROTOCOL_ERROR

\* the key of the frame being read: the last four bytes of its header
WireKey == SubSeq(Last.hdr, Len(Last.hdr) - 3, Len(Last.hdr))

\* C20: unmasking under short reads.  While and after wss_read takes the
\* payload of a frame, in whatever pieces, the bytes stored in the frame's
\* buffer are the payload bytes taken so far, byte i of the frame's payload
\* being combined with byte i mod 4 of the frame's key.
C20_Unmasking ==
  (pc \in {"payload", "done"} /\ Last.pay # <<>>)
  => /\ ~CurFrame.data.null
     /\ CurFrame.data.bytes
          = [i \in 1..Len(Last.pay) |->
               Xor(Last.pay[i], WireKey[((i - 1) % 4) + 1])]

\* five payload bytes of a longer payload with a nonzero key have been
\* taken in reads of at most two bytes, the next read starts at index 5
C20_Witness ==
  /\ pc = "payload" /\ already = 5 /\ length > 0
  /\ Len(Last.pay) = 5
  /\ WireKey = Key1
  /\ CurFrame.data.bytes[5] = Xor(Last.pay[5], Key1[1])

RECURSIVE WholeReads(_, _)
\* the frame the header parser leaves from frame f when every read returns
\* all the bytes it asked for, the bytes being taken from h
WholeReads(f, h) ==
  IF h = <<>> \/ f.state = "PAYLOAD" THEN f
  ELSE LET n == Min(f.maxread, Len(h))
           p == frame_internal_read(f, 0, SubSeq(h, 1, n))
       IN  IF p.res # 0 THEN p.frame
           ELSE WholeReads(p.frame, SubSeq(h, n + 1, Len(h)))

\* C21: header parsing is independent of chunking.  Whatever the sizes of
\* the reads that delivered the header bytes of a frame, the parser is in
\* state PAYLOAD exactly when it has taken the 2 + (0, 2 or 8) + 4 bytes of
\* the header and no more; fin, opcode, mask bit, length and key are then
\* those the parser yields when every read returns all it asked for, the
\* key being the last four header bytes; and before that, the bytes staged
\* by earlier calls are still in the buffer, in order.
C21_ChunkIndependent ==
  Last.hdr # <<>> =>
    /\ (CurFrame.state = "PAYLOAD") = Complete(Last.hdr)
    /\ CurFrame.state = "PAYLOAD" =>
         LET g == WholeReads(frame_init, Last.hdr)
         IN  /\ g.state = "PAYLOAD"
             /\ CurFrame.fin = g.fin /\ CurFrame.fin = Last.hdr[1] \div 128
             /\ CurFrame.opcode = g.opcode
             /\ CurFrame.opcode = Last.hdr[1] % 16
             /\ CurFrame.masked = g.masked /\ CurFrame.masked = 1
             /\ CurFrame.key = g.key /\ CurFrame.key = WireKey
             \* read_payload adds the length of a continuation frame to
             \* client->frame.length
             /\ (cur = "frame" /\ CurFrame.opcode = WS_OPCODE_CONTINUE)
                  \/ CurFrame.length = g.length
    /\ (CurFrame.state # "PAYLOAD" /\ pc = "loop") =>
         /\ CurFrame.datapos <= Len(Last.hdr)
         /\ SubSeq(CurFrame.buf, 1, CurFrame.datapos)
              = SubSeq(Last.hdr, Len(Last.hdr) - CurFrame.datapos + 1,
                       Len(Last.hdr))

\* a header of 14 bytes (7-bit length 127) has been taken in 14 reads of
\* one byte each and the parser is in state PAYLOAD
C21_Witness ==
  /\ single /\ Len(Last.hdr) = 14 /\ Last.hdr[2] % 128 = 127
  /\ CurFrame.state = "PAYLOAD" /\ Last.pay = <<>>
  /\ CurFrame.key = WireKey /\ WireKey = Key1

\* the bytes a parse state needs before the parser leaves it
Needs(st) ==
  CASE st = "INITIAL"  -> 1
    [] st = "LENGTH"   -> 1
    [] st = "XLENGTH"  -> 2
    [] st = "XLENGTH2" -> 8
    [] st = "MASK"     -> 4
    [] st = "PAYLOAD"  -> 0

\* the state that follows LENGTH for a 7-bit length
AfterLength(len7) ==
  IF len7 = 126 THEN "XLENGTH" ELSE IF len7 = 127 THEN "XLENGTH2" ELSE "MASK"

\* one step of the program seen from the parse state of the frame being read
StateStep ==
  LET s   == CurFrame.state
      t   == CurFrame'.state
      h   == Last'.hdr
      got == Len(Last'.hdr) - Len(Last.hdr)
  IN  IF pc \in {"idle", "done"} /\ pc' = "loop"
      THEN \* wss_read starts on a new message
           t = "INITIAL" /\ h = <<>>
      ELSE IF Len(wire') # Len(wire)
      THEN \* the frame is complete and the next one begins
           /\ t = "INITIAL" /\ h = <<>>
           /\ Complete(wire'[Len(wire)].hdr)
      ELSE \* the same frame
           /\ t # s =>
                /\ CurFrame.datapos + got >= Needs(s)
                /\ CASE s = "INITIAL"  ->
                          \/ t = "LENGTH" /\ got = 1
                          \* the second byte is rejected in LENGTH
                          \/ t = "LENGTH" /\ got = 2 /\ h[2] < 128
                               /\ pc' = "done" /\ ret' = -1
                          \/ t = AfterLength(h[2] % 128) /\ got = 2
                     [] s = "LENGTH"   -> t = AfterLength(h[2] % 128)
                     [] s = "XLENGTH"  -> t = "MASK" /\ h[2] % 128 = 126
                     [] s = "XLENGTH2" -> t = "MASK" /\ h[2] % 128 = 127
                     [] s = "MASK"     -> t = "PAYLOAD"
                     [] s = "PAYLOAD"  -> FALSE
           /\ (t = s /\ got > 0 /\ pc' = "loop") =>
                /\ CurFrame.datapos + got < Needs(s)
                /\ CurFrame'.datapos = CurFrame.datapos + got

\* C22: parser state order.  Within one frame the parse state moves only
\* along INITIAL, LENGTH, then XLENGTH when the 7-bit length is 126,
\* XLENGTH2 when it is 127 and MASK otherwise, then MASK, then PAYLOAD; it
\* leaves a state only when the bytes that state needs have arrived, a call
\* that gets fewer leaves it where it is, and no state is entered twice.
C22_StateOrder == [][StateStep]_vars

\* a frame with 7-bit length 127 has passed INITIAL, LENGTH and XLENGTH2
\* and is held in MASK by reads that brought three of the four key bytes
C22_Witness ==
  /\ pc = "loop" /\ CurFrame.state = "MASK" /\ CurFrame.datapos = 3
  /\ Len(Last.hdr) = 13 /\ Last.hdr[2] % 128 = 127

\* C23: staging buffer bound.  Whenever wss_read is about to call the
\* header parser, in whatever parse state and after whatever short reads,
\* datapos + maxread <= 8: the assertion on the 8-byte staging buffer
\* holds, the read that follows stores no byte past the end of the buffer,
\* and the parser is not called in state PAYLOAD.
C23_StagingBound ==
  pc = "loop" =>
    /\ BufAssert(CurFrame)
    /\ CurFrame.datapos + CurFrame.maxread <= BufSize
    /\ CurFrame.maxread >= 1
    /\ CurFrame.state # "PAYLOAD"
    /\ CurFrame.datapos < Needs(CurFrame.state)

\* seven of the eight bytes of a 64-bit extended length are staged after
\* short reads, and the next call may read the one byte that fills the
\* buffer to its end
C23_Witness ==
  /\ pc = "loop" /\ CurFrame.state = "XLENGTH2"
  /\ CurFrame.datapos = 7 /\ CurFrame.maxread = 1
  /\ Len(Last.hdr) = 9

====
